---- MODULE Spec2Model ----
(***************************************************************************)
(* Model of the HTTP interaction client of cloudpayments-integration:      *)
(* AbstractInteractionClient (base.py) and CloudPaymentsInteractionClient  *)
(* (main.py) with ChargeRequestSchema (schemas.py).                        *)
(*                                                                         *)
(* Every coroutine call is a task.  A task runs from one suspension point  *)
(* (an await that can yield to the event loop) to the next in one step.    *)
(* Times are integers in units of 0.025 s, so that delay / 2 is exact.     *)
(***************************************************************************)
EXTENDS Integers, Sequences, FiniteSets, TLC

\* ------------------------------------------------------------- bounds
\* Longest retry policy (REQUEST_RETRY_TIMEOUTS) the model configures.
MaxPolicyLen == 3
\* Number of ClientSession objects that may be constructed in one behaviour.
MaxSessions == 2
\* Most slashes put before or after a URL handed to get_endpoint_url.
MaxSlashes == 2

\* ------------------------------------------------------------ universe
Clients == {"A", "B"}
\* The one caller whose calls run one after another.
SeqTasks == {"t1"}
\* The coroutines of the concurrent specification, and the client and the
\* verb their calls are made on.
ConcTasks == {"t1", "t2"}
ConcClients == {"A"}
ConcVerb == "GET"
Verbs == {"GET", "POST", "PUT", "PATCH", "DELETE"}
\* HTTP statuses a target answers with (both sides of the 400 boundary).
Statuses == {200, 399, 400, 500}
\* Wall-clock durations of one attempt (0 s, 0.1 s, 0.15 s).
Elapsed == {0, 4, 6}

\* k-th entry of the class default policy (0.1, 0.2, 0.4), continued
\* geometrically for longer policies.
RECURSIVE DefaultDelay(_)
DefaultDelay(k) == IF k = 1 THEN 4 ELSE 2 * DefaultDelay(k - 1)

\* Retry policies a client class may declare: the prefixes of the default
\* policy and policies of zero delays (a zero entry skips the sleep).
Policies ==
    {[k \in 1..n |-> DefaultDelay(k)] : n \in 0..MaxPolicyLen}
        \cup {[k \in 1..n |-> 0] : n \in 1..MaxPolicyLen}

\* ------------------------------------------------------------ exceptions
\* Direct base class of every exception class the client can raise or see.
Base(cls) ==
    CASE cls = "InteractionResponseError" -> "BaseInteractionError"
      [] cls = "BaseInteractionError" -> "Exception"
      [] cls = "ValidationError" -> "MarshmallowError"
      [] cls = "MarshmallowError" -> "Exception"
      [] cls = "TimeoutError" -> "Exception"
      [] cls = "ClientConnectionError" -> "ClientError"
      [] cls = "ClientError" -> "Exception"
      [] cls = "RuntimeError" -> "Exception"
      [] cls = "AttributeError" -> "Exception"
      [] OTHER -> "object"

RECURSIVE IsSubclass(_, _)
IsSubclass(cls, base) ==
    IF cls = base THEN TRUE
    ELSE IF cls \in {"object", "None"} THEN FALSE
    ELSE IsSubclass(Base(cls), base)

\* No response body.
NoBody ==
    [Success |-> "absent", Message |-> "None", Model |-> "absent",
     ReasonCode |-> "absent"]

\* The value None where an exception is expected.
NoneExc ==
    [cls |-> "None", id |-> 0, status_code |-> 0, method |-> "",
     service |-> "", response_status |-> "None", params |-> "None",
     message |-> <<>>]

\* The value None where a response is expected.
NoneResp == [id |-> 0, status |-> 0, method |-> "", body |-> NoBody]

\* An exception raised by a library: the transport's error of attempt id,
\* the schema library's error, or the interpreter's AttributeError.
LibraryExc(cls, id, message) ==
    [NoneExc EXCEPT !.cls = cls, !.id = id, !.message = message]

\* BaseInteractionError.__init__: message or default_message.
BaseInit(e, service, method, message, default_message) ==
    [e EXCEPT !.service = service, !.method = method,
              !.message = IF message # <<>> THEN message ELSE default_message]

InteractionResponseError(status_code, method, service, message, params) ==
    BaseInit([NoneExc EXCEPT !.cls = "InteractionResponseError",
                             !.status_code = status_code,
                             !.response_status = "None",
                             !.params = params],
             service, method, message, <<"Backend unexpected response">>)

\* Outcome of a call: a returned value or a raised exception.
Returned(resp) == [kind |-> "return", response |-> resp, exc |-> NoneExc]
Raised(e) == [kind |-> "raise", response |-> NoneResp, exc |-> e]
Running == [kind |-> "running", response |-> NoneResp, exc |-> NoneExc]

\* ------------------------------------------------------ schema validation
CURRENCIES == {"RUB", "USD", "EUR", "GBP"}

\* Request bodies handed to charge()/validate_data(): each field is absent
\* ("missing") or carries a value; "10" is an integer, "abc" is not.
AmountValues == {"missing", "10", "abc"}
CurrencyValues == {"missing", "RUB", "XXX"}
CryptogramValues == {"missing", "hello"}
RequestData ==
    [Amount : AmountValues, Currency : CurrencyValues,
     CardCryptogramPacket : CryptogramValues]

\* ChargeRequestSchema().load(data): the names of the fields it rejects,
\* in declaration order (required fields missing, a non-integer Amount, a
\* Currency outside CURRENCIES).
SchemaErrors(data) ==
    (IF data.Amount # "10" THEN <<"Amount">> ELSE <<>>)
        \o (IF data.Currency \notin CURRENCIES \cup {"missing"}
            THEN <<"Currency">> ELSE <<>>)
        \o (IF data.CardCryptogramPacket = "missing"
            THEN <<"CardCryptogramPacket">> ELSE <<>>)

\* _handle_validation_error(exc): raise ValidationError(message=exc), the
\* schema library's own class wrapping the diagnostic it was given.
HandleValidationError(errors) ==
    Raised(LibraryExc("ValidationError", 0, <<"ValidationError">> \o errors))

\* validate_data(data, schema): None, or what the handler raises.
ValidateData(data) ==
    IF SchemaErrors(data) = <<>> THEN Returned(NoneResp)
    ELSE HandleValidationError(SchemaErrors(data))

\* --------------------------------------------------- response processing
SERVICE == "Cloud Payments"

\* _handle_response_error(response)
HandleResponseError(resp) ==
    Raised(InteractionResponseError(resp.status, resp.method, SERVICE,
                                    <<>>, "None"))

\* _process_response with the boundary status 400 let through.
ProcessResponse_Above400(resp) ==
    IF resp = NoneResp
    THEN Raised(LibraryExc("AttributeError", 0,
                           <<"'NoneType' object has no attribute 'status'">>))
    ELSE IF resp.status > 400 THEN HandleResponseError(resp)
    ELSE Returned(resp)

\* _process_response(response); response.status on None is an
\* AttributeError.
ProcessResponse(resp) ==
    IF resp = NoneResp
    THEN Raised(LibraryExc("AttributeError", 0,
                           <<"'NoneType' object has no attribute 'status'">>))
    ELSE IF resp.status >= 400 THEN HandleResponseError(resp)
    ELSE Returned(resp)

\* The end of _make_request: "if exc: raise exc" / "return response".
MakeRequestResult(e, resp) ==
    IF e # NoneExc THEN Raised(e) ELSE Returned(resp)

\* _request: _make_request, then _process_response on what it returned.
RequestResult(e, resp) ==
    IF MakeRequestResult(e, resp).kind = "raise"
    THEN MakeRequestResult(e, resp)
    ELSE ProcessResponse(MakeRequestResult(e, resp).response)

\* JSON bodies a target sends with a status below 400.  Model is "absent"
\* (no such key), "null" or "object"; ReasonCode is the decimal text of
\* Model.ReasonCode, or "absent".
Bodies ==
    {[Success |-> "true", Message |-> "None", Model |-> "object",
      ReasonCode |-> "0"],
     [Success |-> "false", Message |-> "declined", Model |-> "object",
      ReasonCode |-> "5"],
     [Success |-> "false", Message |-> "declined", Model |-> "object",
      ReasonCode |-> "0"],
     [Success |-> "false", Message |-> "declined", Model |-> "object",
      ReasonCode |-> "absent"],
     [Success |-> "false", Message |-> "declined", Model |-> "null",
      ReasonCode |-> "absent"],
     [Success |-> "false", Message |-> "declined", Model |-> "absent",
      ReasonCode |-> "absent"],
     [Success |-> "absent", Message |-> "None", Model |-> "absent",
      ReasonCode |-> "absent"]}

\* response_json.get('Model', {}).get('ReasonCode') as a condition: None
\* and 0 are false.
ReasonCodeTruthy(body) ==
    body.Model = "object" /\ body.ReasonCode \notin {"absent", "0"}

\* charge() after post() returned: parse the body, raise on not Success
\* (.get on a null Model is an AttributeError).
ChargeResult(posted) ==
    IF posted.kind = "raise" THEN posted
    ELSE IF posted.response.body.Success # "true"
    THEN IF posted.response.body.Model = "null"
         THEN Raised(LibraryExc("AttributeError", 0,
                                <<"'NoneType' object has no attribute 'get'">>))
         ELSE Raised(InteractionResponseError(
                  posted.response.status, "POST", "cloudpayments",
                  <<posted.response.body.Message>>
                      \o (IF ReasonCodeTruthy(posted.response.body)
                          THEN <<"ReasonCode:", posted.response.body.ReasonCode>>
                          ELSE <<>>),
                  "None"))
    ELSE posted

\* ------------------------------------------------------- endpoint URLs
\* A URL is the sequence of its pieces: "/" for each slash, and the text
\* between slashes.
RECURSIVE Slashes(_)
Slashes(n) == IF n = 0 THEN <<>> ELSE <<"/">> \o Slashes(n - 1)

\* str.rstrip('/')
RECURSIVE RStrip(_)
RStrip(s) ==
    IF s # <<>> /\ s[Len(s)] = "/" THEN RStrip(SubSeq(s, 1, Len(s) - 1))
    ELSE s

\* str.lstrip('/')
RECURSIVE LStrip(_)
LStrip(s) == IF s # <<>> /\ Head(s) = "/" THEN LStrip(Tail(s)) ELSE s

\* get_endpoint_url with the two strings concatenated as they are.
GetEndpointUrl_Concat(base_url, relative_url, base_url_override) ==
    (IF base_url_override # <<>> THEN base_url_override ELSE base_url)
        \o relative_url

\* get_endpoint_url(relative_url, base_url_override) of a client whose
\* BASE_URL is base_url; <<>> is an override of None or "".
GetEndpointUrl(base_url, relative_url, base_url_override) ==
    RStrip(IF base_url_override # <<>> THEN base_url_override ELSE base_url)
        \o <<"/">> \o LStrip(relative_url)

\* The class attributes of CloudPaymentsInteractionClient.
BASE_URL ==
    <<"https:", "/", "/", "api.cloudpayments.ru", "/", "payments", "/",
      "cards", "/">>
CHARGE_PATH == <<"charge">>

\* "https://api.example.com/v1" and "https://other.example.com": a base
\* URL and an override without a slash at the end, and the slash variants
\* of a base URL or relative path handed to get_endpoint_url.
ExampleBase == <<"https:", "/", "/", "api.example.com", "/", "v1">>
OtherBase == <<"https:", "/", "/", "other.example.com">>
SlashVariants(core) ==
    {Slashes(i) \o core \o Slashes(j) : i, j \in 0..MaxSlashes}
TrailingVariants(core) == {core \o Slashes(j) : j \in 0..MaxSlashes}

\* ------------------------------------------------------------------ state
VARIABLES
    REQUEST_RETRY_TIMEOUTS, \* the class attribute: the retry policy
    session,        \* client -> its _session (0 is None, else a session id)
    sessions,       \* every ClientSession constructed so far, by id
    connector_closed, \* whether the shared CONNECTOR pool has been closed
    task,           \* task -> frame of the coroutine call it is running
    constructed,    \* client -> Sessions constructed since close() was last called
    used,           \* client -> session ids its attempts used since then
    last_call       \* client -> the call on it that returned last

vars ==
    <<REQUEST_RETRY_TIMEOUTS, session, sessions, connector_closed, task,
      constructed, used, last_call>>

\* The frame of a task that runs no call.
IdleFrame ==
    [pc |-> "idle", op |-> "none", client |-> "A", method |-> "",
     data |-> [Amount |-> "missing", Currency |-> "missing",
               CardCryptogramPacket |-> "missing"],
     retry_number |-> 0, exc |-> NoneExc, response |-> NoneResp,
     response_time |-> 0, last_elapsed |-> 0, delay |-> 0, sleep_arg |-> 0,
     using |-> 0, calls |-> 0, log |-> <<>>, made |-> Running,
     result |-> Running,
     held |-> 0, created0 |-> 0,
     base_url |-> <<>>, relative_url |-> <<>>, override |-> <<>>,
     url |-> <<>>]

\* Session kwargs that hand the pool's ownership to the Session.
SessionKwargs_Owner ==
    [connector |-> "CONNECTOR", connector_owner |-> TRUE, trust_env |-> TRUE]

\* _get_session_kwargs(): the pool is referenced, not owned.
SessionKwargs ==
    [connector |-> "CONNECTOR", connector_owner |-> FALSE, trust_env |-> TRUE]

\* create_session(): a fresh open ClientSession built from the kwargs.
CreateSession(c) ==
    [kwargs |-> SessionKwargs, closed |-> FALSE, close_calls |-> 0]

\* The session property constructing a Session on every read.
MustCreate_Always(ref) == ref = ref

\* The session property: whether reading it has to construct a Session.
MustCreate(ref) == ref = 0

\* The guard of close(): "if self._session".
HoldsSession(ref) == ref # 0

\* close() that does not drop the reference.
RefAfterClose_Kept(ref) == ref

\* What close() leaves in _session after awaiting the Session's close().
RefAfterClose(ref) == 0

\* ClientSession.close() on session s: the Session is closed; the pool is
\* closed with it only when the Session owns it.
SessionClosed(s) ==
    [s EXCEPT !.closed = TRUE, !.close_calls = s.close_calls + 1]

ConnectorAfterClose(s, was_closed) ==
    was_closed \/ (~s.closed /\ s.kwargs.connector_owner)

\* ------------------------------------------------------- the retry loop
\* chain((0.0,), REQUEST_RETRY_TIMEOUTS)[retry_number]
RetryDelay(policy, retry_number) ==
    IF retry_number = 0 THEN 0 ELSE policy[retry_number]

\* LoopAfter with a response of status >= 400 retried like an error.
LoopAfter_RetryStatus(o, retry_number, policy) ==
    IF o.kind = "timeout" \/ (o.kind = "response" /\ o.response.status < 400)
    THEN "break"
    ELSE IF retry_number < Len(policy) THEN "continue"
    ELSE "exhausted"

\* LoopAfter with the last policy entry never tried.
LoopAfter_OneShort(o, retry_number, policy) ==
    IF o.kind \in {"timeout", "response"} THEN "break"
    ELSE IF retry_number + 1 < Len(policy) THEN "continue"
    ELSE "exhausted"

\* How the for loop goes on after an attempt that ended with outcome o at
\* index retry_number: "break", "continue" (a next entry exists) or
\* "exhausted".
LoopAfter(o, retry_number, policy) ==
    IF o.kind \in {"timeout", "response"} THEN "break"
    ELSE IF retry_number < Len(policy) THEN "continue"
    ELSE "exhausted"

\* A response_time that adds up the durations of all attempts so far.
ResponseTimeAfter_Accumulated(response_time, elapsed) ==
    response_time + elapsed

\* Line 167: response_time is the duration of the attempt that just ended.
ResponseTimeAfter(response_time, elapsed) == elapsed

\* Line 152: the base of the wait before a retry.
Delay(retry_delay, response_time) == retry_delay - response_time

\* A loop whose retry_number does not advance.
NextRetry_Stuck(retry_number) == retry_number

\* enumerate(...) at line 150: the next iteration's retry_number.
NextRetry(retry_number) == retry_number + 1

\* The local exc after an attempt that ended with outcome o: line 163
\* binds it on a transport error, every other outcome leaves it as cur,
\* the value it had when the attempt was issued.
ExcAfter(o, cur) == IF o.kind = "error" THEN o.exc ELSE cur

\* The local response after an attempt that ended with outcome o: line
\* 159 binds it when the await returns, otherwise it stays as cur.
ResponseAfter(o, cur) == IF o.kind = "response" THEN o.response ELSE cur

\* random.uniform(-delay / 2, delay / 2): the two ends and the middle.
Jitter(delay) == {-(delay \div 2), 0, delay \div 2}

\* What an attempt can end with: a response, a transport error that is not
\* a timeout, or asyncio.TimeoutError.  id is the attempt's ordinal, which
\* tells the objects of different attempts apart.
Outcomes(id, method, with_body) ==
    {[kind |-> "response", exc |-> NoneExc,
      response |-> [id |-> id, status |-> st, method |-> method, body |-> b]] :
         st \in {x \in Statuses : x < 400},
         b \in IF with_body THEN Bodies ELSE {NoBody}}
      \cup {[kind |-> "response", exc |-> NoneExc,
             response |-> [id |-> id, status |-> st, method |-> method,
                           body |-> NoBody]] :
               st \in {x \in Statuses : x >= 400}}
      \cup {[kind |-> "error", response |-> NoneResp,
             exc |-> LibraryExc("ClientConnectionError", id, <<>>)],
            [kind |-> "timeout", response |-> NoneResp,
             exc |-> LibraryExc("TimeoutError", id, <<>>)]}

\* ---------------------------------------------------------------- actions
\* A task starts a call when its previous one has returned.
MayStart(t) == task[t].pc = "idle"

\* An assignment that binds the attribute on the class, for every instance.
AttrTargets_Class(c) == Clients

\* "self._session = ..." binds the attribute of the instance c alone; the
\* class-level "_session = None" of line 73 is only what an instance reads
\* before its first assignment.
AttrTargets(c) == {c}

\* Reading self.session: the client's Session, constructed if there is none.
Acquire(c) ==
    /\ MustCreate(session[c]) => Len(sessions) < MaxSessions
    /\ sessions' = IF MustCreate(session[c])
                   THEN Append(sessions, CreateSession(c)) ELSE sessions
    /\ session' = IF MustCreate(session[c])
                  THEN [x \in Clients |->
                          IF x \in AttrTargets(c) THEN Len(sessions) + 1
                          ELSE session[x]]
                  ELSE session
    /\ constructed' = [constructed EXCEPT
                         ![c] = IF MustCreate(session[c]) THEN @ + 1 ELSE @]
    /\ used' = [used EXCEPT ![c] = @ \cup {session'[c]}]

\* An attempt issued without the reset of lines 155-156.
BeginAttempt_NoReset(f, sid) ==
    [f EXCEPT !.using = sid, !.delay = 0, !.sleep_arg = 0,
              !.calls = @ + 1, !.pc = "request"]

\* Lines 155-159: reset exc and response, hand the request to Session sid
\* and suspend on it.
BeginAttempt(f, sid) ==
    [f EXCEPT !.exc = NoneExc, !.response = NoneResp, !.using = sid,
              !.delay = 0, !.sleep_arg = 0,
              !.calls = @ + 1, !.pc = "request"]

\* The call leaves _make_request: _request classifies, charge() parses.
Finish(f) ==
    [f EXCEPT !.pc = "done", !.retry_number = 0, !.exc = NoneExc,
              !.response = NoneResp, !.response_time = 0,
              !.last_elapsed = 0, !.delay = 0,
              !.sleep_arg = 0, !.using = 0,
              !.made = MakeRequestResult(f.exc, f.response),
              !.result = IF f.op = "charge"
                         THEN ChargeResult(RequestResult(f.exc, f.response))
                         ELSE RequestResult(f.exc, f.response)]

\* get/post/put/patch/delete: _request -> _make_request, up to the first
\* await of session.request (no sleep before the first attempt).
CallVerb(t, c, m) ==
    /\ MayStart(t)
    /\ Acquire(c)
    /\ task' = [task EXCEPT ![t] =
                  BeginAttempt([IdleFrame EXCEPT !.op = "request",
                                                 !.client = c, !.method = m,
                                                 !.created0 = Len(sessions)],
                               session'[c])]
    /\ UNCHANGED <<REQUEST_RETRY_TIMEOUTS, connector_closed, last_call>>

\* charge() that posts without validating first.
ChargeValidation_Skipped(data) == Returned(NoneResp)

\* The validation charge() performs before it builds the request.
ChargeValidation(data) == ValidateData(data)

\* charge(request_data): validate, then post.
CallCharge(t, c, data) ==
    /\ MayStart(t)
    /\ IF ChargeValidation(data).kind = "raise"
       THEN /\ task' = [task EXCEPT ![t] =
                          [IdleFrame EXCEPT !.op = "charge", !.client = c,
                                            !.data = data, !.pc = "done",
                                            !.created0 = Len(sessions),
                                            !.result = ChargeValidation(data)]]
            /\ UNCHANGED <<session, sessions, constructed, used>>
       ELSE /\ Acquire(c)
            /\ task' = [task EXCEPT ![t] =
                          BeginAttempt([IdleFrame EXCEPT !.op = "charge",
                                                         !.client = c,
                                                         !.method = "POST",
                                                         !.data = data,
                                                         !.base_url = BASE_URL,
                                                         !.relative_url = CHARGE_PATH,
                                                         !.url = GetEndpointUrl(
                                                             BASE_URL, CHARGE_PATH, <<>>),
                                                         !.created0 = Len(sessions)],
                                       session'[c])]
    /\ UNCHANGED <<REQUEST_RETRY_TIMEOUTS, connector_closed, last_call>>

\* validate_data(data, ChargeRequestSchema) called on its own.
CallValidate(t, c, data) ==
    /\ MayStart(t)
    /\ task' = [task EXCEPT ![t] =
                  [IdleFrame EXCEPT !.op = "validate_data", !.client = c,
                                    !.data = data, !.pc = "done",
                                    !.created0 = Len(sessions),
                                    !.result = ValidateData(data)]]
    /\ UNCHANGED <<REQUEST_RETRY_TIMEOUTS, session, sessions,
                   connector_closed, constructed, used, last_call>>

\* get_endpoint_url(relative_url, base_url_override) on a client whose
\* class sets BASE_URL to base_url.
CallGetEndpointUrl(t, c, base_url, relative_url, base_url_override) ==
    /\ MayStart(t)
    /\ task' = [task EXCEPT ![t] =
                  [IdleFrame EXCEPT !.op = "get_endpoint_url", !.client = c,
                                    !.pc = "done",
                                    !.created0 = Len(sessions),
                                    !.base_url = base_url,
                                    !.relative_url = relative_url,
                                    !.override = base_url_override,
                                    !.url = GetEndpointUrl(base_url, relative_url,
                                                           base_url_override),
                                    !.result = Returned(NoneResp)]]
    /\ UNCHANGED <<REQUEST_RETRY_TIMEOUTS, session, sessions,
                   connector_closed, constructed, used, last_call>>

\* An attempt ends (line 159 resumes): lines 160-167, then the loop goes
\* on to the next sleep or attempt, or the call finishes.
AttemptEnds(t) ==
    LET f == task[t] IN
    /\ f.pc = "request"
    /\ \E o \in Outcomes(f.calls, f.method, f.op = "charge"), el \in Elapsed :
         LET f1 == [f EXCEPT !.exc = ExcAfter(o, f.exc),
                             !.response = ResponseAfter(o, f.response),
                             !.response_time = ResponseTimeAfter(@, el),
                             !.last_elapsed = el,
                             !.log = Append(@, [kind |-> o.kind,
                                                exc |-> o.exc,
                                                response |-> o.response,
                                                session |-> f.using])]
             f2 == [f1 EXCEPT !.retry_number = NextRetry(@)]
             rd == RetryDelay(REQUEST_RETRY_TIMEOUTS, NextRetry(f.retry_number))
         IN
         /\ (sessions[f.using].closed \/ connector_closed) => o.kind = "error"
         /\ IF LoopAfter(o, f.retry_number, REQUEST_RETRY_TIMEOUTS) = "continue"
            THEN IF rd # 0
                 THEN /\ \E j \in Jitter(Delay(rd, f1.response_time)) :
                           task' = [task EXCEPT ![t] =
                                      [f2 EXCEPT
                                         !.delay = Delay(rd, f1.response_time),
                                         !.sleep_arg =
                                             Delay(rd, f1.response_time) + j,
                                         !.pc = "sleep"]]
                      /\ UNCHANGED <<session, sessions, constructed, used>>
                 ELSE /\ Acquire(f.client)
                      /\ task' = [task EXCEPT ![t] =
                                    BeginAttempt(f2, session'[f.client])]
            ELSE /\ task' = [task EXCEPT ![t] = Finish(f1)]
                 /\ UNCHANGED <<session, sessions, constructed, used>>
    /\ UNCHANGED <<REQUEST_RETRY_TIMEOUTS, connector_closed, last_call>>

\* A retry issued while the attempt before it is still in flight.
Wake_Early(t) ==
    LET f == task[t] IN
    /\ f.pc = "request"
    /\ Acquire(f.client)
    /\ task' = [task EXCEPT ![t] = BeginAttempt(f, session'[f.client])]
    /\ UNCHANGED <<REQUEST_RETRY_TIMEOUTS, connector_closed, last_call>>

\* asyncio.sleep returns: the next attempt is issued.
Wake(t) ==
    LET f == task[t] IN
    /\ f.pc = "sleep"
    /\ Acquire(f.client)
    /\ task' = [task EXCEPT ![t] = BeginAttempt(f, session'[f.client])]
    /\ UNCHANGED <<REQUEST_RETRY_TIMEOUTS, connector_closed, last_call>>

\* close(): with a Session held, call its close() and suspend on it;
\* with none, return at once.
CallClose(t, c) ==
    /\ MayStart(t)
    /\ IF HoldsSession(session[c])
       THEN /\ sessions' = [sessions EXCEPT ![session[c]] = SessionClosed(@)]
            /\ connector_closed' =
                 ConnectorAfterClose(sessions[session[c]], connector_closed)
            /\ task' = [task EXCEPT ![t] =
                          [IdleFrame EXCEPT !.op = "close", !.client = c,
                                            !.held = session[c],
                                            !.created0 = Len(sessions),
                                            !.pc = "closing"]]
       ELSE /\ task' = [task EXCEPT ![t] =
                          [IdleFrame EXCEPT !.op = "close", !.client = c,
                                            !.created0 = Len(sessions),
                                            !.pc = "done",
                                            !.result = Returned(NoneResp)]]
            /\ UNCHANGED <<sessions, connector_closed>>
    /\ constructed' = [constructed EXCEPT ![c] = 0]
    /\ used' = [used EXCEPT ![c] = {}]
    /\ UNCHANGED <<REQUEST_RETRY_TIMEOUTS, session, last_call>>

\* The Session's close() returns: line 203 drops the reference.
CloseResume(t) ==
    LET f == task[t] IN
    /\ f.pc = "closing"
    /\ session' = [x \in Clients |->
                     IF x \in AttrTargets(f.client)
                     THEN RefAfterClose(session[x]) ELSE session[x]]
    /\ task' = [task EXCEPT ![t] =
                  [f EXCEPT !.pc = "done", !.result = Returned(NoneResp)]]
    /\ UNCHANGED <<REQUEST_RETRY_TIMEOUTS, sessions, connector_closed,
                   constructed, used, last_call>>

\* What is remembered of the calls that returned on a client: "closed"
\* after a close() that held a Session, "closed_again" after a close()
\* that directly followed such a close(), "other" otherwise.
LastCall(op, held, before) ==
    IF op = "close" /\ held # 0 THEN "closed"
    ELSE IF op = "close" /\ before \in {"closed", "closed_again"}
    THEN "closed_again"
    ELSE "other"

\* The caller has the call's outcome; the frame is gone.
Return(t) ==
    /\ task[t].pc = "done"
    /\ last_call' = [last_call EXCEPT ![task[t].client] =
                       LastCall(task[t].op, task[t].held, @)]
    /\ task' = [task EXCEPT ![t] = IdleFrame]
    /\ UNCHANGED <<REQUEST_RETRY_TIMEOUTS, session, sessions,
                   connector_closed, constructed, used>>

Init ==
    /\ REQUEST_RETRY_TIMEOUTS \in Policies
    /\ session = [c \in Clients |-> 0]
    /\ sessions = <<>>
    /\ connector_closed = FALSE
    /\ task = [t \in SeqTasks |-> IdleFrame]
    /\ constructed = [c \in Clients |-> 0]
    /\ used = [c \in Clients |-> {}]
    /\ last_call = [c \in Clients |-> "other"]

\* Every step a task can take once its call has started.
Step(t) ==
    \/ AttemptEnds(t)
    \/ Wake(t)
    \/ CloseResume(t)
    \/ Return(t)

\* A call starts.
Start(t) ==
    \/ \E c \in Clients, m \in Verbs : CallVerb(t, c, m)
    \/ \E c \in Clients, data \in RequestData : CallCharge(t, c, data)
    \/ \E c \in Clients, data \in RequestData : CallValidate(t, c, data)
    \/ \E c \in Clients : CallClose(t, c)
    \/ \E c \in Clients, b \in TrailingVariants(ExampleBase),
          r \in SlashVariants(CHARGE_PATH),
          o \in {<<>>} \cup TrailingVariants(OtherBase) :
            CallGetEndpointUrl(t, c, b, r, o)

\* One caller: the calls on the clients run one after another.
Next == \E t \in SeqTasks : Start(t) \/ Step(t)

Spec == Init /\ [][Next]_vars

\* Concurrent callers: two coroutines on one event loop call the verb
\* and close() of one client; a coroutine runs from one suspension point
\* (the network await, the backoff sleep, the await of the Session's
\* close()) to the next without interruption.
ConcPolicies == {p \in Policies : Len(p) <= 1}

InitConc ==
    /\ REQUEST_RETRY_TIMEOUTS \in ConcPolicies
    /\ session = [c \in Clients |-> 0]
    /\ sessions = <<>>
    /\ connector_closed = FALSE
    /\ task = [t \in ConcTasks |-> IdleFrame]
    /\ constructed = [c \in Clients |-> 0]
    /\ used = [c \in Clients |-> {}]
    /\ last_call = [c \in Clients |-> "other"]

StartConc(t) ==
    \/ \E c \in ConcClients : CallVerb(t, c, ConcVerb)
    \/ \E c \in ConcClients : CallClose(t, c)

NextConc == \E t \in ConcTasks : StartConc(t) \/ Step(t)

SpecConc == InitConc /\ [][NextConc]_vars

\* One caller of one client's verb and close(), in an environment where
\* every attempt issued ends (with a response, an error or a timeout) and
\* every backoff sleep returns.
NextLive == \E t \in SeqTasks : StartConc(t) \/ Step(t)

SpecLive ==
    /\ Init /\ [][NextLive]_vars
    /\ \A t \in SeqTasks : WF_vars(AttemptEnds(t)) /\ WF_vars(Wake(t))

\* ------------------------------------------------------------------ claims
IsRequest(f) == f.op \in {"request", "charge"}
AllErrors(log) == \A i \in 1..Len(log) : log[i].kind = "error"
Last(log) == log[Len(log)]

\* C1: when every attempt raises a transport error that is no timeout, the
\* transport is invoked exactly Len(policy) + 1 times and the call raises
\* the exception object of the last attempt, unwrapped.
C1_ExhaustedRaisesLast ==
    \A t \in DOMAIN task :
        LET f == task[t] IN
        (f.pc = "done" /\ IsRequest(f) /\ f.log # <<>> /\ AllErrors(f.log)) =>
            /\ f.calls = Len(REQUEST_RETRY_TIMEOUTS) + 1
            /\ Len(f.log) = f.calls
            /\ f.result = Raised(Last(f.log).exc)
            /\ f.result.exc.id = Len(REQUEST_RETRY_TIMEOUTS) + 1
            /\ ~IsSubclass(f.result.exc.cls, "BaseInteractionError")

C1_Witness ==
    \E t \in DOMAIN task :
        /\ task[t].pc = "done" /\ task[t].op = "request"
        /\ Len(REQUEST_RETRY_TIMEOUTS) = MaxPolicyLen
        /\ Len(task[t].log) = MaxPolicyLen + 1
        /\ AllErrors(task[t].log)
        /\ task[t].result.kind = "raise"

\* C2 (as claimed): an attempt that ends with asyncio.TimeoutError is the
\* last attempt, and the verb method raises that timeout to its caller.
C2_TimeoutPropagates ==
    \A t \in DOMAIN task :
        LET f == task[t] IN
        (f.pc = "done" /\ f.op = "request" /\ f.log # <<>>
            /\ Last(f.log).kind = "timeout") =>
            /\ f.calls = Len(f.log)
            /\ f.result = Raised(Last(f.log).exc)

\* C3: no attempt is issued after an attempt that returned a response,
\* whatever its status: the response is the last entry of the call's
\* attempts and the call is over.
C3_ResponseEndsLoop ==
    \A t \in DOMAIN task :
        LET f == task[t] IN
        \A i \in 1..Len(f.log) :
            f.log[i].kind = "response" =>
                i = Len(f.log) /\ f.calls = i /\ f.pc = "done"

C3_Witness ==
    \E t \in DOMAIN task :
        /\ task[t].pc = "done" /\ task[t].op = "request"
        /\ Len(REQUEST_RETRY_TIMEOUTS) = MaxPolicyLen
        /\ Len(task[t].log) = 1 /\ task[t].calls = 1
        /\ task[t].log[1].kind = "response"
        /\ task[t].log[1].response.status >= 400

\* C4: with calls run one after another, a client constructs at most one
\* Session between consecutive close() calls, every attempt since the last
\* close() used that one open Session, and a client that made a request
\* since its last close() constructed its Session since then.
C4_OneSessionBetweenCloses ==
    /\ \A c \in Clients :
        /\ constructed[c] <= 1
        /\ Cardinality(used[c]) <= 1
        /\ used[c] # {} => constructed[c] = 1 /\ used[c] = {session[c]}
        /\ \A s \in used[c] : ~sessions[s].closed
    /\ \A t \in DOMAIN task :
        \A i \in 1..Len(task[t].log) :
            task[t].log[i].session = session[task[t].client]

C4_Witness ==
    \E t \in DOMAIN task :
        LET f == task[t] IN
        /\ f.pc = "done" /\ f.op = "request"
        /\ last_call[f.client] = "closed"
        /\ Len(f.log) >= 2
        /\ session[f.client] = 2 /\ sessions[1].closed
        /\ \A i \in 1..Len(f.log) : f.log[i].session = 2

\* C5: _process_response returns the response it was given when its status
\* is below 400, and otherwise raises an InteractionResponseError carrying
\* the response's status and method, the client's SERVICE and params None.
C5_ClassifyByStatus ==
    \A t \in DOMAIN task :
        LET f == task[t] IN
        (f.pc = "done" /\ f.op = "request" /\ f.log # <<>>
            /\ Last(f.log).kind = "response") =>
            LET r == Last(f.log).response IN
            IF r.status < 400 THEN f.result = Returned(r)
            ELSE /\ f.result.kind = "raise"
                 /\ f.result.exc.cls = "InteractionResponseError"
                 /\ f.result.exc.status_code = r.status
                 /\ f.result.exc.method = r.method
                 /\ f.result.exc.service = SERVICE
                 /\ f.result.exc.params = "None"

C5_Witness ==
    \E t \in DOMAIN task :
        /\ task[t].pc = "done" /\ task[t].op = "request"
        /\ task[t].log # <<>>
        /\ Last(task[t].log).kind = "response"
        /\ Last(task[t].log).response.status = 400
        /\ task[t].result.exc.status_code = 400
        /\ task[t].result.exc.method = "PATCH"

\* C6 (as claimed): every error that leaves a verb method is a subtype of
\* BaseInteractionError or an exception the transport raised in one of
\* the call's attempts.
C6_OnlyTaxonomyOrTransport ==
    \A t \in DOMAIN task :
        LET f == task[t] IN
        (f.pc = "done" /\ f.op = "request" /\ f.result.kind = "raise") =>
            \/ IsSubclass(f.result.exc.cls, "BaseInteractionError")
            \/ \E i \in 1..Len(f.log) :
                 /\ f.log[i].kind \in {"error", "timeout"}
                 /\ f.log[i].exc = f.result.exc

\* C7 (as claimed): data the schema rejects leaves validate_data as a
\* subtype of BaseInteractionError, never as the schema library's own
\* ValidationError.
C7_ValidationErrorInTaxonomy ==
    \A t \in DOMAIN task :
        LET f == task[t] IN
        (f.pc = "done" /\ f.op = "validate_data"
            /\ SchemaErrors(f.data) # <<>>) =>
            /\ f.result.kind = "raise"
            /\ IsSubclass(f.result.exc.cls, "BaseInteractionError")
            /\ ~IsSubclass(f.result.exc.cls, "MarshmallowError")

\* C8: charge() with a body the schema rejects fails before any network
\* activity: the transport is never invoked, no attempt is made and no
\* Session is constructed.
C8_InvalidChargeNoNetwork ==
    \A t \in DOMAIN task :
        LET f == task[t] IN
        (f.op = "charge" /\ SchemaErrors(f.data) # <<>>) =>
            /\ f.pc = "done" /\ f.result.kind = "raise"
            /\ f.calls = 0 /\ f.log = <<>>
            /\ Len(sessions) = f.created0

C8_Witness ==
    \E t \in DOMAIN task :
        LET f == task[t] IN
        /\ f.pc = "done" /\ f.op = "charge"
        /\ f.data.Amount = "10" /\ f.data.CardCryptogramPacket = "missing"
        /\ f.result.kind = "raise"
        /\ session[f.client] = 0 /\ sessions = <<>>

\* C9: a close() that has returned leaves the client with no Session and
\* raises nothing, also when the client held none; no Session has its
\* close() called more than once by the client's close().
C9_CloseIdempotent ==
    /\ \A s \in 1..Len(sessions) :
        /\ sessions[s].close_calls <= 1
        /\ sessions[s].closed <=> sessions[s].close_calls = 1
    /\ \A t \in DOMAIN task :
        LET f == task[t] IN
        (f.pc = "done" /\ f.op = "close") =>
            /\ session[f.client] = 0
            /\ f.result = Returned(NoneResp)
            /\ f.held # 0 => sessions[f.held].close_calls = 1

C9_Witness ==
    \E t \in DOMAIN task :
        LET f == task[t] IN
        /\ f.pc = "done" /\ f.op = "close" /\ f.held = 0
        /\ last_call[f.client] = "closed"
        /\ Len(sessions) = 1 /\ sessions[1].close_calls = 1
        /\ session[f.client] = 0

\* C10: no operation of a client closes the shared connection pool: the
\* pool stays open and no Session owns it.
C10_PoolNeverClosed ==
    /\ ~connector_closed
    /\ \A s \in 1..Len(sessions) : ~sessions[s].kwargs.connector_owner

C10_Witness ==
    \E t \in DOMAIN task :
        LET f == task[t] IN
        /\ f.pc = "done" /\ f.op = "request" /\ f.client = "B"
        /\ last_call["A"] = "closed" /\ session["A"] = 0
        /\ sessions[1].closed
        /\ session["B"] = 2 /\ ~sessions[2].closed
        /\ f.log[1].session = 2
        /\ f.result.kind = "return"

\* C11 (as claimed): charge() answered with a status below 400 and a body
\* whose Success is false raises an InteractionResponseError whose message
\* holds the body's Message and, when the body carries Model.ReasonCode = r,
\* the text "ReasonCode: r"; a response on the first attempt means one
\* transport call.
C11_EmbeddedFailureMessage ==
    \A t \in DOMAIN task :
        LET f == task[t] IN
        (f.pc = "done" /\ f.op = "charge" /\ f.log # <<>>
            /\ Last(f.log).kind = "response"
            /\ Last(f.log).response.status < 400
            /\ Last(f.log).response.body.Success = "false") =>
            LET b == Last(f.log).response.body
                m == f.result.exc.message
            IN
            /\ f.result.kind = "raise"
            /\ f.result.exc.cls = "InteractionResponseError"
            /\ \E i \in 1..Len(m) : m[i] = b.Message
            /\ (b.Model = "object" /\ b.ReasonCode # "absent") =>
                   \E i \in 1..(Len(m) - 1) :
                       m[i] = "ReasonCode:" /\ m[i + 1] = b.ReasonCode
            /\ Len(f.log) = 1 => f.calls = 1

\* C12 (as claimed): for every trailing-slash variant of the base URL
\* "https://api.example.com/v1/" and every leading or trailing slash
\* variant of the relative path "charge", get_endpoint_url returns exactly
\* "https://api.example.com/v1/charge" (the override's URL joined with
\* "charge" when a non-empty override is given).
C12_JoinAnySlashVariant ==
    \A t \in DOMAIN task :
        LET f == task[t] IN
        (f.pc = "done" /\ f.op = "get_endpoint_url") =>
            f.url = (IF f.override # <<>> THEN OtherBase ELSE ExampleBase)
                        \o <<"/">> \o CHARGE_PATH

\* C12 (amended): the same, for every trailing-slash variant of the base
\* URL (or of the override) and every leading-slash variant of the
\* relative path; the trailing slashes of the relative path are kept
\* after "charge".
C12_JoinStrippedEnds ==
    \A t \in DOMAIN task :
        LET f == task[t] IN
        (f.pc = "done" /\ f.op = "get_endpoint_url") =>
            f.url = (IF f.override # <<>> THEN OtherBase ELSE ExampleBase)
                        \o <<"/">> \o CHARGE_PATH
                        \o Slashes(Len(f.relative_url)
                                   - Len(RStrip(f.relative_url)))

C12_Witness ==
    \E t \in DOMAIN task :
        LET f == task[t] IN
        /\ f.pc = "done" /\ f.op = "get_endpoint_url"
        /\ f.override = <<>>
        /\ f.base_url = ExampleBase \o Slashes(MaxSlashes)
        /\ f.relative_url = Slashes(MaxSlashes) \o CHARGE_PATH
        /\ f.url = <<"https:", "/", "/", "api.example.com", "/", "v1", "/",
                     "charge">>

\* C13 (as claimed): under any interleaving of close() calls and verb calls
\* on one client, close() never resets the client to "no session" while
\* the client holds a Session that has not been closed.
C13_ClosedBeforeDropped ==
    [][\A c \in Clients :
          (session[c] # 0 /\ session'[c] = 0) => sessions[session[c]].closed]_vars

\* C14: requests started concurrently on a client that holds no Session,
\* with close() never called: exactly one Session is constructed, and every
\* attempt of every request, ended or in flight, uses it.
C14_OneSessionForConcurrentRequests ==
    (\A s \in 1..Len(sessions) : sessions[s].close_calls = 0) =>
        \A c \in Clients :
            /\ constructed[c] <= 1
            /\ (\E t \in DOMAIN task : task[t].client = c /\ task[t].calls >= 1) =>
                   /\ constructed[c] = 1
                   /\ session[c] # 0
                   /\ used[c] = {session[c]}
            /\ \A t \in DOMAIN task :
                   task[t].client = c =>
                       /\ task[t].pc = "request" => task[t].using = session[c]
                       /\ \A i \in 1..Len(task[t].log) :
                              task[t].log[i].session = session[c]

C14_Witness ==
    /\ \A s \in 1..Len(sessions) : sessions[s].close_calls = 0
    /\ Len(sessions) = 1
    /\ task["t1"].client = task["t2"].client
    /\ task["t1"].pc = "request" /\ task["t2"].pc = "request"
    /\ task["t1"].calls = 2 /\ task["t2"].calls = 2
    /\ task["t1"].using = 1 /\ task["t2"].using = 1

\* C15: when the attempts of one request raise transport errors that are
\* no timeout on attempts 1..k-1 and attempt k returns a response,
\* _make_request returns exactly that response, the only one received, and
\* raises none of the recorded errors.
C15_ResponseAfterErrorsReturned ==
    \A t \in DOMAIN task :
        LET f == task[t] IN
        (f.pc = "done" /\ IsRequest(f) /\ f.log # <<>>
            /\ Last(f.log).kind = "response"
            /\ \A i \in 1..(Len(f.log) - 1) : f.log[i].kind = "error") =>
            /\ f.made = Returned(Last(f.log).response)
            /\ f.made.response.id = Len(f.log)
            /\ Len(f.log) <= Len(REQUEST_RETRY_TIMEOUTS) + 1
            /\ \A i \in 1..Len(f.log) : f.made # Raised(f.log[i].exc)

C15_Witness ==
    \E t \in DOMAIN task :
        LET f == task[t] IN
        /\ f.pc = "done" /\ f.op = "request"
        /\ Len(REQUEST_RETRY_TIMEOUTS) = MaxPolicyLen
        /\ Len(f.log) = MaxPolicyLen + 1
        /\ \A i \in 1..MaxPolicyLen : f.log[i].kind = "error"
        /\ Last(f.log).kind = "response"
        /\ f.made = Returned(Last(f.log).response)

\* C16: when every attempt and every sleep completes, a request that is
\* waiting on an attempt or a sleep eventually completes, whatever mix of
\* responses, errors and timeouts the target produces, and it never issues
\* more than Len(policy) + 1 attempts.
C16_RequestCompletes ==
    /\ [](\A t \in DOMAIN task :
             task[t].calls <= Len(REQUEST_RETRY_TIMEOUTS) + 1)
    /\ \A t \in SeqTasks :
          (task[t].pc \in {"request", "sleep"}) ~> (task[t].pc = "done")

C16_Witness ==
    \E t \in DOMAIN task :
        LET f == task[t] IN
        /\ f.pc = "done" /\ f.op = "request"
        /\ Len(REQUEST_RETRY_TIMEOUTS) = MaxPolicyLen
        /\ f.calls = MaxPolicyLen + 1
        /\ \A i \in 1..MaxPolicyLen : f.log[i].kind = "error"
        /\ Last(f.log).kind = "timeout"

\* C17: no wait is requested before the first attempt; the wait requested
\* before retry k has the base policy[k] - elapsed, elapsed being the
\* duration of the attempt just before it alone, and lies within half of
\* the base's size around the base; a base that is not positive gives a
\* wait that is not positive.
C17_BackoffWindow ==
    \A t \in DOMAIN task :
        LET f == task[t] IN
        /\ f.calls = 0 => f.pc \in {"idle", "done", "closing"}
        /\ f.pc = "sleep" =>
              /\ f.retry_number >= 1 /\ f.calls = f.retry_number
              /\ Len(f.log) = f.calls
              /\ REQUEST_RETRY_TIMEOUTS[f.retry_number] # 0
              /\ f.delay = REQUEST_RETRY_TIMEOUTS[f.retry_number] - f.last_elapsed
              /\ IF f.delay >= 0
                 THEN f.delay <= 2 * f.sleep_arg /\ 2 * f.sleep_arg <= 3 * f.delay
                 ELSE 3 * f.delay <= 2 * f.sleep_arg /\ 2 * f.sleep_arg <= f.delay
              /\ f.delay <= 0 => f.sleep_arg <= 0

C17_Witness ==
    \E t \in DOMAIN task :
        LET f == task[t] IN
        /\ f.pc = "sleep" /\ f.retry_number = MaxPolicyLen
        /\ REQUEST_RETRY_TIMEOUTS[1] = 4
        /\ f.last_elapsed = 6
        /\ f.delay = DefaultDelay(MaxPolicyLen) - 6
        /\ 2 * f.sleep_arg = 3 * f.delay

\* C18: at most one attempt of a request is in flight at any moment, an
\* attempt is in flight exactly while the request waits on the network, and
\* a further attempt is issued only by the request's own coroutine, when
\* its sleep returns or, with no sleep to make, in the step in which the
\* attempt before it ends; attempts of different requests may overlap.
C18_AttemptsSequential ==
    /\ [](\A t \in DOMAIN task :
             LET f == task[t] IN
             /\ f.calls - Len(f.log) \in {0, 1}
             /\ f.calls - Len(f.log) = 1 <=> f.pc = "request"
             /\ f.pc = "sleep" => f.calls = f.retry_number)
    /\ [][\A t \in DOMAIN task :
             (task[t].calls >= 1 /\ task'[t].calls = task[t].calls + 1) =>
                 \/ /\ task[t].pc = "sleep"
                    /\ task'[t].log = task[t].log
                 \/ /\ task[t].pc = "request"
                    /\ Len(task'[t].log) = Len(task[t].log) + 1
                    /\ REQUEST_RETRY_TIMEOUTS[task[t].calls] = 0]_vars

C18_Witness ==
    /\ task["t1"].client = task["t2"].client
    /\ task["t1"].pc = "request" /\ task["t1"].calls = 2
    /\ Len(task["t1"].log) = 1
    /\ task["t2"].pc = "request" /\ task["t2"].calls = 1
    /\ task["t2"].log = <<>>
    /\ task["t1"].using = task["t2"].using

\* C19: Sessions are per client instance: two clients never hold the same
\* Session, and a step of a call on one client (its Session being created
\* on first use, its close()) changes neither the Session reference of the
\* other client nor the state of the Session the other client holds.
C19_SessionPerInstance ==
    /\ [](\A a, b \in Clients :
             (a # b /\ session[a] # 0) => session[a] # session[b])
    /\ [][\A b \in Clients :
             (\/ session'[b] # session[b]
              \/ /\ session[b] # 0
                 /\ sessions'[session[b]] # sessions[session[b]]) =>
                 \E t \in DOMAIN task :
                     /\ task'[t] # task[t]
                     /\ b = IF task[t].pc = "idle" THEN task'[t].client
                           ELSE task[t].client]_vars

C19_Witness ==
    \E t \in DOMAIN task :
        LET f == task[t] IN
        /\ f.pc = "done" /\ f.op = "close" /\ f.client = "A" /\ f.held = 1
        /\ session["A"] = 0 /\ sessions[1].closed
        /\ session["B"] = 2 /\ ~sessions[2].closed
        /\ sessions[2].close_calls = 0

====
